---- MODULE Spec2Model ----
(***************************************************************************)
(* Real-time hub of the bus tracking server: the WebSocket connection      *)
(* registry (connectedClients), the per-message handler with its auth and  *)
(* updateLocation branches, the close handler, and the admin fan-out of    *)
(* POST /api/incidents.  Source: src/server/routes.ts (relational store);  *)
(* src/server/storage.ts holds the same hub over the document store.       *)
(*                                                                         *)
(* Every await of the source is two steps here: the storage collaborator   *)
(* answers (Db... actions, which read or write the stored rows at that     *)
(* instant, or reject), and later the suspended handler resumes            *)
(* (Resume... actions).  Handlers of other events run in between.          *)
(***************************************************************************)
EXTENDS Integers, Sequences, FiniteSets, TLC

\* ------------------------------------------------------------------ bounds
MaxEvents == 3        \* inbound events (frames, HTTP requests) handled
MaxOrderEvents == 4   \* the same, for one passenger and one driver
MaxTime == 7          \* seconds of the admin dashboard's clock

\* the delay of the clearing timer, in seconds: setTimeout(..., 5000)
ClearAfter == 5

\* -------------------------------------------------------------- JS values
Undef  == [typ |-> "undefined", val |-> ""]
Str(s) == [typ |-> "string", val |-> s]
Num(s) == [typ |-> "number", val |-> s]

\* JavaScript truthiness, as used by `data.userId && data.role`
Truthy(v) ==
    ~ \/ v.typ = "undefined"
      \/ (v.typ = "string" /\ v.val = "")
      \/ (v.typ = "number" /\ v.val = "0")

Loc(a, b)  == [typ |-> "object", lat |-> a, lng |-> b]
NoLocation == [typ |-> "undefined", lat |-> Undef, lng |-> Undef]

\* `data.location` in a condition: any object is truthy
TruthyLoc(l) == l.typ = "object"

\* type guard of the shared schema
isValidLocation(l) ==
    /\ l.typ = "object"
    /\ l.lat.typ = "number"
    /\ l.lng.typ = "number"

\* ------------------------------------------------------------ input sets
Conns   == {1, 2}                          \* sockets the server may accept
Roles   == {"passenger", "driver", "admin"}
Buses   == {"bus42", "bus7"}
NoBus   == "none"
NoConn  == 0

L1      == Loc(Num("1"), Num("2"))
L2      == Loc(Num("3"), Num("4"))
NoLat   == Loc(Undef, Num("2"))            \* lat missing
StrLat  == Loc(Str("x"), Num("2"))         \* lat not a number

Frame(t, u, r, l, ok) ==
    [type |-> t, userId |-> u, role |-> r, location |-> l, wellFormed |-> ok]

\* the frames the clients of this repository send
ProtocolFrames ==
    {Frame("auth", Str("u2"), Str(r), NoLocation, TRUE) : r \in Roles}
    \cup {Frame("auth", Str("d1"), Str("driver"), NoLocation, TRUE)}
    \cup {Frame("updateLocation", Undef, Undef, l, TRUE) : l \in {L1, L2}}

\* frames outside the hub's protocol, which any peer may send
ForeignFrames ==
    {Frame("auth", Str("u2"), Str("guest"), NoLocation, TRUE),
     Frame("auth", Undef, Str("passenger"), NoLocation, TRUE),
     Frame("auth", Num("0"), Str("driver"), NoLocation, TRUE),
     Frame("auth", Str("d1"), Undef, NoLocation, TRUE),
     Frame("updateLocation", Undef, Undef, NoLat, TRUE),
     Frame("updateLocation", Undef, Undef, StrLat, TRUE),
     Frame("updateLocation", Undef, Undef, NoLocation, TRUE),
     Frame("stopUpdate", Undef, Undef, NoLocation, TRUE),
     Frame("stopUpdate", Str("d1"), Str("driver"), L1, TRUE),
     Frame("", Undef, Undef, NoLocation, FALSE)}          \* not JSON

Frames == ProtocolFrames \cup ForeignFrames

VARIABLES
    sock,              \* readyState of each socket: idle, open, closing, closed
                       \* (faulty: OPEN, and a ws.send on it raises)
    connectedClients,  \* the Map, as its entries in insertion order
    buses,             \* stored bus rows
    incidents,         \* stored incident rows
    tasks,             \* handlers started so far, in start order
    sent,              \* per socket, the ws.send calls made on it, in order
    adminPage          \* the admin dashboard: newIncident of
                       \* useIncidentUpdates, its pending timers, the clock

vars == <<sock, connectedClients, buses, incidents, tasks, sent, adminPage>>

\* ------------------------------------------------------------ Map helpers
Ids(reg) == {reg[i].id : i \in DOMAIN reg}

Index(reg, c) == CHOOSE i \in DOMAIN reg : reg[i].id = c

\* Map.get
MapGet(reg, c) ==
    IF c \in Ids(reg) THEN reg[Index(reg, c)]
    ELSE [id |-> NoConn, role |-> Undef, userId |-> Undef]

MapSetAppend(reg, c, r, u) ==
    Append(reg, [id |-> c, role |-> r, userId |-> u])

\* Map.set: an existing key keeps its place, a new key goes last
MapSet(reg, c, r, u) ==
    LET e == [id |-> c, role |-> r, userId |-> u]
    IN  IF c \in Ids(reg)
        THEN [reg EXCEPT ![Index(reg, c)] = e]
        ELSE Append(reg, e)

MapDeleteNone(reg, c) == reg

MapDeleteSplice(reg, c) ==
    IF c \in Ids(reg) THEN SelectSeq(reg, LAMBDA e : e.id # c)
    ELSE SubSeq(reg, 1, Len(reg) - 1)

\* Map.delete
MapDelete(reg, c) == SelectSeq(reg, LAMBDA e : e.id # c)

ForEachEntry(reg, role) == reg

\* the entries for which a loop's `client.role === role` holds, in Map order
ForEachOfRole(reg, role) == SelectSeq(reg, LAMBDA e : e.role = Str(role))

\* one ws.send(JSON.stringify({ type, data })) on socket c, made by handler t;
\* the frame reaches the client only if the socket is open
Send(log, c, type, data, t) ==
    [log EXCEPT ![c] = Append(@, [type |-> type, data |-> data, ev |-> t,
                                  open |-> (sock[c] = "open")])]

\* the body of a fan-out loop over the entries of the role:
\* if (client.ws.readyState === WebSocket.OPEN) client.ws.send(...)
RECURSIVE SendOpen(_, _, _, _, _)
SendOpen(log, entries, type, data, t) ==
    IF entries = <<>> THEN log
    ELSE LET e == Head(entries)
             next == IF sock[e.id] = "open"
                     THEN Send(log, e.id, type, data, t)
                     ELSE log
         IN  IF sock[e.id] = "faulty" THEN log   \* the exception ends the loop
             ELSE SendOpen(next, Tail(entries), type, data, t)

\* a send of the loop over the role raises: the loop is inside the
\* handler's try and has no try of its own
Raises(reg, role) ==
    \E i \in DOMAIN ForEachOfRole(reg, role) :
        sock[ForEachOfRole(reg, role)[i].id] = "faulty"

\* for (const [, client] of connectedClients) if (role && OPEN) send
Broadcast(log, reg, role, type, data, t) ==
    SendOpen(log, ForEachOfRole(reg, role), type, data, t)

\* ---------------------------------------------------------- storage rows
Row(b) == [id |-> b, driverId |-> buses[b].driverId,
           status |-> buses[b].status,
           currentLocation |-> buses[b].currentLocation]

AllBuses == {Row(b) : b \in Buses}

\* where: eq(buses.status, 'active')
ActiveBuses == {Row(b) : b \in {x \in Buses : buses[x].status = "active"}}

\* where: eq(buses.driverId, userId)
BusesOfDriver(u) == {b \in Buses : buses[b].driverId = u}

\* useState<any | null>(null): no incident displayed
NoIncident == [id |-> 0, at |-> 0]

\* one started handler: its frame, where it is suspended, the userId its
\* lookup is made for, and what storage has answered
Task(k, c, m, u, pc) ==
    [kind |-> k, conn |-> c, msg |-> m, user |-> u, pc |-> pc,
     bus |-> NoBus, snap |-> {}, res |-> "", failed |-> FALSE]

Init ==
    /\ sock = [c \in Conns |-> "idle"]
    /\ connectedClients = <<>>
    /\ buses = [b \in Buses |->
                  [driverId |-> IF b = "bus42" THEN Str("d1") ELSE Undef,
                   status |-> IF b = "bus42" THEN "active" ELSE "inactive",
                   routeId |-> IF b = "bus42" THEN Num("1") ELSE Undef,
                   currentLocation |-> NoLocation]]
    /\ incidents = {}
    /\ tasks = <<>>
    /\ sent = [c \in Conns |-> <<>>]
    /\ adminPage = [newIncident |-> NoIncident, timers |-> <<>>,
                    now |-> 0, seen |-> 0]

\* ------------------------------------------------------------- the socket
\* wss.on('connection'): a socket is accepted, nothing is registered yet
Connect(c) ==
    /\ sock[c] = "idle"
    /\ \A d \in Conns : d < c => sock[d] # "idle"
    /\ sock' = [sock EXCEPT ![c] = "open"]
    /\ UNCHANGED <<connectedClients, buses, incidents, tasks, sent, adminPage>>

\* Accepting a socket touches nothing another handler reads, so every run
\* is a reordering of one that accepts its sockets first.
Accepted == \A c \in Conns : sock[c] # "idle"

\* the transport of an open socket breaks: the next ws.send on it raises
WriteFault(c) ==
    /\ Accepted
    /\ sock[c] = "open"
    /\ sock' = [sock EXCEPT ![c] = "faulty"]
    /\ UNCHANGED <<connectedClients, buses, incidents, tasks, sent, adminPage>>

\* the socket leaves the OPEN state; its close event is still to be handled
SocketDown(c) ==
    /\ Accepted
    /\ sock[c] = "open"
    /\ sock' = [sock EXCEPT ![c] = "closing"]
    /\ UNCHANGED <<connectedClients, buses, incidents, tasks, sent, adminPage>>

OnCloseKeepEntry(c) ==
    /\ sock[c] = "closing"
    /\ sock' = [sock EXCEPT ![c] = "closed"]
    /\ UNCHANGED <<connectedClients, buses, incidents, tasks, sent, adminPage>>

\* ws.on('close')
OnClose(c) ==
    /\ sock[c] = "closing"
    /\ sock' = [sock EXCEPT ![c] = "closed"]
    /\ connectedClients' = MapDelete(connectedClients, c)
    /\ UNCHANGED <<buses, incidents, tasks, sent, adminPage>>

\* ------------------------------------------- ws.on('message'), to 1st await
AuthGuardNoType(m) ==
    m.wellFormed /\ Truthy(m.userId) /\ Truthy(m.role)

\* data.type === 'auth' && data.userId && data.role
AuthGuard(m) ==
    m.wellFormed /\ m.type = "auth" /\ Truthy(m.userId) /\ Truthy(m.role)

UpdateGuard(m) ==
    m.wellFormed /\ m.type = "updateLocation" /\ TruthyLoc(m.location)

IsRegistered(reg, c) == c \in Ids(reg)

\* const client = connectedClients.get(clientId); client?.role === 'driver'
IsDriver(reg, c) == MapGet(reg, c).role = Str("driver")

OnFrameLateSet(c, m) ==
    /\ Accepted
    /\ sock[c] = "open"
    /\ UNCHANGED <<sock, buses, incidents, sent, adminPage>>
    /\ IF AuthGuard(m)
       THEN /\ connectedClients' = IF m.role = Str("passenger")
                                   THEN connectedClients
                                   ELSE MapSet(connectedClients, c,
                                               m.role, m.userId)
            /\ tasks' = Append(tasks,
                 Task("auth", c, m, m.userId,
                      IF m.role = Str("passenger") THEN "w_findMany"
                      ELSE IF m.role = Str("driver") THEN "w_driverBus"
                      ELSE "done"))
       ELSE IF UpdateGuard(m) /\ IsDriver(connectedClients, c)
       THEN /\ tasks' = Append(tasks,
                 Task("update", c, m, MapGet(connectedClients, c).userId,
                      "w_findFirst"))
            /\ UNCHANGED connectedClients
       ELSE /\ tasks' = Append(tasks, Task("dropped", c, m, Undef, "done"))
            /\ UNCHANGED connectedClients

\* every frame starts one run of the async handler; a frame that matches no
\* branch, or that JSON.parse rejects, ends its run at once
OnFrame(c, m) ==
    /\ Accepted
    /\ sock[c] = "open"
    /\ UNCHANGED <<sock, buses, incidents, sent, adminPage>>
    /\ IF AuthGuard(m)
       THEN /\ connectedClients' = MapSet(connectedClients, c, m.role, m.userId)
            /\ tasks' = Append(tasks,
                 Task("auth", c, m, m.userId,
                      IF m.role = Str("passenger") THEN "w_findMany"
                      ELSE IF m.role = Str("driver") THEN "w_driverBus"
                      ELSE "done"))
       ELSE IF UpdateGuard(m) /\ IsDriver(connectedClients, c)
       THEN /\ tasks' = Append(tasks,
                 Task("update", c, m, MapGet(connectedClients, c).userId,
                      "w_findFirst"))
            /\ UNCHANGED connectedClients
       ELSE /\ tasks' = Append(tasks, Task("dropped", c, m, Undef, "done"))
            /\ UNCHANGED connectedClients

OnMessage(c, m) == Len(tasks) < MaxEvents /\ OnFrame(c, m)

\* ------------------------------------------------- the storage collaborator
SetTask(t, pc, bus, snap) ==
    tasks' = [tasks EXCEPT ![t] =
                [@ EXCEPT !.pc = pc, !.bus = bus, !.snap = snap]]

\* the handler ends: by its last statement, or in its catch when a send raised
EndTask(t, raised, res) ==
    tasks' = [tasks EXCEPT ![t] =
                [@ EXCEPT !.pc = "done", !.failed = raised, !.res = res]]

\* db.query.buses.findMany({ where: eq(buses.status, 'active') }) is answered
DbFindMany(t) ==
    /\ tasks[t].pc = "w_findMany"
    /\ SetTask(t, "r_findMany", NoBus, ActiveBuses)
    /\ UNCHANGED <<sock, connectedClients, buses, incidents, sent, adminPage>>

\* db.query.buses.findFirst({ where: eq(buses.driverId, data.userId) }) is
\* answered for the driver snapshot
DbFindFirst(t) ==
    /\ tasks[t].pc = "w_driverBus"
    /\ LET found == BusesOfDriver(tasks[t].user)
       IN  IF found = {}
           THEN SetTask(t, "r_driverBus", NoBus, {})
           ELSE \E b \in found : SetTask(t, "r_driverBus", b, {Row(b)})
    /\ UNCHANGED <<sock, connectedClients, buses, incidents, sent, adminPage>>

LookupAnyBus(t) ==
    /\ tasks[t].pc = "w_findFirst"
    /\ \E b \in Buses : SetTask(t, "w_update", b, {})
    /\ UNCHANGED <<sock, connectedClients, buses, incidents, sent, adminPage>>

LookupThenBroadcast(t) ==
    /\ tasks[t].pc = "w_findFirst"
    /\ LET found == BusesOfDriver(tasks[t].user)
       IN  IF found = {}
           THEN SetTask(t, "done", NoBus, {})
           ELSE \E b \in found : SetTask(t, "r_update", b, {})
    /\ UNCHANGED <<sock, connectedClients, buses, incidents, sent, adminPage>>

\* updateLocation: findFirst({ where: eq(buses.driverId, client.userId) }) is
\* answered and the handler resumes: if (driverBus) it issues the update,
\* else it ends.  Nothing of the resumption is visible to other handlers, so
\* answer and resumption are one step.
LookupDriverBus(t) ==
    /\ tasks[t].pc = "w_findFirst"
    /\ LET found == BusesOfDriver(tasks[t].user)
       IN  IF found = {}
           THEN SetTask(t, "done", NoBus, {})
           ELSE \E b \in found : SetTask(t, "w_update", b, {})
    /\ UNCHANGED <<sock, connectedClients, buses, incidents, sent, adminPage>>

DbUpdateAllRows(t) ==
    /\ tasks[t].pc = "w_update"
    /\ buses' = [b \in Buses |->
                   [buses[b] EXCEPT !.currentLocation = tasks[t].msg.location]]
    /\ SetTask(t, "r_update", tasks[t].bus, tasks[t].snap)
    /\ UNCHANGED <<sock, connectedClients, incidents, sent, adminPage>>

DbUpdateNewestWins(t) ==
    /\ tasks[t].pc = "w_update"
    /\ buses' = IF \E u \in DOMAIN tasks :
                       /\ u > t /\ tasks[u].kind = "update"
                       /\ tasks[u].bus = tasks[t].bus
                       /\ tasks[u].pc \in {"r_update", "done"}
                THEN buses
                ELSE [buses EXCEPT ![tasks[t].bus].currentLocation =
                                       tasks[t].msg.location]
    /\ SetTask(t, "r_update", tasks[t].bus, tasks[t].snap)
    /\ UNCHANGED <<sock, connectedClients, incidents, sent, adminPage>>

\* db.update(buses).set({ currentLocation }).where(eq(buses.id, driverBus.id))
DbUpdate(t) ==
    /\ tasks[t].pc = "w_update"
    /\ buses' = [buses EXCEPT ![tasks[t].bus].currentLocation =
                                  tasks[t].msg.location]
    /\ SetTask(t, "r_update", tasks[t].bus, tasks[t].snap)
    /\ UNCHANGED <<sock, connectedClients, incidents, sent, adminPage>>

DbRejectUnhandled(t) ==
    /\ tasks[t].pc \in {"w_findMany", "w_driverBus", "w_findFirst",
                        "w_update", "w_insert", "w_incident"}
    /\ tasks' = [tasks EXCEPT ![t] =
                   [@ EXCEPT !.pc = "rejected", !.failed = TRUE]]
    /\ UNCHANGED <<sock, connectedClients, buses, incidents, sent, adminPage>>

\* a storage call rejects: the handler's catch logs it and the handler ends
DbReject(t) ==
    /\ tasks[t].pc \in {"w_findMany", "w_driverBus", "w_findFirst",
                        "w_update", "w_insert", "w_incident"}
    /\ tasks' = [tasks EXCEPT ![t] =
                   [@ EXCEPT !.pc = "done", !.failed = TRUE,
                             !.res = IF tasks[t].kind = "incident"
                                     THEN "500" ELSE ""]]
    /\ UNCHANGED <<sock, connectedClients, buses, incidents, sent, adminPage>>

\* ------------------------------------------------- the handlers resume
\* passenger snapshot: ws.send({ type: 'busLocations', data: activeBuses })
ResumeSnapshot(t) ==
    /\ tasks[t].pc = "r_findMany"
    /\ sent' = IF sock[tasks[t].conn] = "faulty" THEN sent
               ELSE Send(sent, tasks[t].conn, "busLocations", tasks[t].snap, t)
    /\ EndTask(t, sock[tasks[t].conn] = "faulty", "")
    /\ UNCHANGED <<sock, connectedClients, buses, incidents, adminPage>>

ResumeDriverRouteAlways(t) ==
    /\ tasks[t].pc = "r_driverBus"
    /\ sent' = Send(sent, tasks[t].conn, "busRoute", tasks[t].snap, t)
    /\ SetTask(t, "done", tasks[t].bus, tasks[t].snap)
    /\ UNCHANGED <<sock, connectedClients, buses, incidents, adminPage>>

\* driver snapshot: if (driverBus) ws.send({ type: 'busRoute', ... })
ResumeDriverRoute(t) ==
    /\ tasks[t].pc = "r_driverBus"
    /\ sent' = IF tasks[t].bus # NoBus /\ sock[tasks[t].conn] # "faulty"
               THEN Send(sent, tasks[t].conn, "busRoute", tasks[t].snap, t)
               ELSE sent
    /\ EndTask(t, tasks[t].bus # NoBus /\ sock[tasks[t].conn] = "faulty", "")
    /\ UNCHANGED <<sock, connectedClients, buses, incidents, adminPage>>

ResumeBroadcastIfOpen(t) ==
    /\ tasks[t].pc = "r_update"
    /\ sent' = IF sock[tasks[t].conn] = "open"
               THEN Broadcast(sent, connectedClients, "passenger",
                      "busLocationUpdate",
                      [busId |-> tasks[t].bus,
                       location |-> tasks[t].msg.location], t)
               ELSE sent
    /\ SetTask(t, "done", tasks[t].bus, tasks[t].snap)
    /\ UNCHANGED <<sock, connectedClients, buses, incidents, adminPage>>

\* updateLocation after the write: the loop over connectedClients
ResumeBroadcast(t) ==
    /\ tasks[t].pc = "r_update"
    /\ sent' = Broadcast(sent, connectedClients, "passenger",
                  "busLocationUpdate",
                  [busId |-> tasks[t].bus, location |-> tasks[t].msg.location],
                  t)
    /\ EndTask(t, Raises(connectedClients, "passenger"), "")
    /\ UNCHANGED <<sock, connectedClients, buses, incidents, adminPage>>

\* ------------------------------------------------- POST /api/incidents
PostIncidentUnchecked(authed, valid) ==
    /\ Accepted
    /\ Len(tasks) < MaxEvents
    /\ tasks' = Append(tasks,
         Task("incident", NoConn,
              Frame("POST /api/incidents",
                    IF authed THEN Str("u2") ELSE Undef,
                    Undef, NoLocation, valid),
              IF authed THEN Str("u2") ELSE Undef,
              "w_insert"))
    /\ UNCHANGED <<sock, connectedClients, buses, incidents, sent, adminPage>>

\* the request up to its first await: 401 when not authenticated, 500 when
\* insertIncidentSchema.parse throws, else the insert is issued
PostIncident(authed, valid) ==
    /\ Accepted
    /\ Len(tasks) < MaxEvents
    /\ tasks' = Append(tasks,
         [Task("incident", NoConn,
               Frame("POST /api/incidents",
                     IF authed THEN Str("u2") ELSE Undef,
                     Undef, NoLocation, valid),
               IF authed THEN Str("u2") ELSE Undef,
               IF authed /\ valid THEN "w_insert" ELSE "done")
          EXCEPT !.res = IF ~authed THEN "401" ELSE IF ~valid THEN "500"
                         ELSE "",
                 !.failed = authed /\ ~valid])
    /\ UNCHANGED <<sock, connectedClients, buses, incidents, sent, adminPage>>

Incident(t) == [id |-> t, reportedBy |-> tasks[t].msg.userId]

\* db.insert(incidents).values(validatedData).returning() is answered and
\* the handler resumes by issuing db.query.incidents.findFirst
DbInsertIncident(t) ==
    /\ tasks[t].pc = "w_insert"
    /\ incidents' = incidents \cup {Incident(t)}
    /\ SetTask(t, "w_incident", NoBus, {})
    /\ UNCHANGED <<sock, connectedClients, buses, sent, adminPage>>

\* db.query.incidents.findFirst({ where: eq(incidents.id, newIncident.id) })
DbFindIncident(t) ==
    /\ tasks[t].pc = "w_incident"
    /\ SetTask(t, "r_incident", NoBus, {i \in incidents : i.id = t})
    /\ UNCHANGED <<sock, connectedClients, buses, incidents, sent, adminPage>>

ResumeNotifyPassengers(t) ==
    /\ tasks[t].pc = "r_incident"
    /\ sent' = Broadcast(sent, connectedClients, "passenger", "newIncident",
                         tasks[t].snap, t)
    /\ tasks' = [tasks EXCEPT ![t] = [@ EXCEPT !.pc = "done", !.res = "201"]]
    /\ UNCHANGED <<sock, connectedClients, buses, incidents, adminPage>>

\* the loop over connectedClients, then res.status(201).json(...)
ResumeNotifyAdmins(t) ==
    /\ tasks[t].pc = "r_incident"
    /\ sent' = Broadcast(sent, connectedClients, "admin", "newIncident",
                         tasks[t].snap, t)
    /\ EndTask(t, Raises(connectedClients, "admin"),
               IF Raises(connectedClients, "admin") THEN "500" ELSE "201")
    /\ UNCHANGED <<sock, connectedClients, buses, incidents, adminPage>>

\* ------------------------------------------------- PUT /api/buses/:id
\* an admin edits the status of a bus row through the REST path
PutBus(b, s) ==
    /\ Accepted
    /\ Len(tasks) < MaxEvents
    /\ buses[b].status # s
    /\ buses' = [buses EXCEPT ![b].status = s]
    /\ tasks' = Append(tasks,
         Task("putBus", NoConn,
              Frame("PUT /api/buses", Undef, Undef, NoLocation, TRUE),
              Undef, "done"))
    /\ UNCHANGED <<sock, connectedClients, incidents, sent, adminPage>>

Tasks == DOMAIN tasks

\* the hub under the traffic of its own clients, with sockets closing,
\* storage calls failing and the REST paths that touch what the hub reads
Next ==
    \/ \E c \in Conns : Connect(c)
    \/ \E c \in Conns : SocketDown(c)
    \/ \E c \in Conns : OnClose(c)
    \/ \E c \in Conns, m \in ProtocolFrames : OnMessage(c, m)
    \/ \E t \in Tasks : DbFindMany(t)
    \/ \E t \in Tasks : DbFindFirst(t)
    \/ \E t \in Tasks : LookupDriverBus(t)
    \/ \E t \in Tasks : DbUpdate(t)
    \/ \E t \in Tasks : DbReject(t)
    \/ \E t \in Tasks : ResumeSnapshot(t)
    \/ \E t \in Tasks : ResumeDriverRoute(t)
    \/ \E t \in Tasks : ResumeBroadcast(t)
    \/ \E a, v \in BOOLEAN : PostIncident(a, v)
    \/ \E t \in Tasks : DbInsertIncident(t)
    \/ \E t \in Tasks : DbFindIncident(t)
    \/ \E t \in Tasks : ResumeNotifyAdmins(t)
    \/ \E b \in Buses, s \in {"active", "inactive"} : PutBus(b, s)

Spec == Init /\ [][Next]_vars

\* the hub when a write on an open socket can fail, over sockets that stay
\* open and a storage that answers
NextWrites ==
    \/ \E c \in Conns : Connect(c)
    \/ \E c \in Conns : WriteFault(c)
    \/ \E c \in Conns, m \in ProtocolFrames : OnMessage(c, m)
    \/ \E t \in Tasks : DbFindMany(t)
    \/ \E t \in Tasks : DbFindFirst(t)
    \/ \E t \in Tasks : LookupDriverBus(t)
    \/ \E t \in Tasks : DbUpdate(t)
    \/ \E t \in Tasks : ResumeSnapshot(t)
    \/ \E t \in Tasks : ResumeDriverRoute(t)
    \/ \E t \in Tasks : ResumeBroadcast(t)
    \/ \E a, v \in BOOLEAN : PostIncident(a, v)
    \/ \E t \in Tasks : DbInsertIncident(t)
    \/ \E t \in Tasks : DbFindIncident(t)
    \/ \E t \in Tasks : ResumeNotifyAdmins(t)

SpecWrites == Init /\ [][NextWrites]_vars

\* the message handler under every frame a peer may send, on sockets that
\* stay open and over a storage that answers
NextFrames ==
    \/ \E c \in Conns : Connect(c)
    \/ \E c \in Conns, m \in Frames : OnMessage(c, m)
    \/ \E t \in Tasks : DbFindMany(t)
    \/ \E t \in Tasks : DbFindFirst(t)
    \/ \E t \in Tasks : LookupDriverBus(t)
    \/ \E t \in Tasks : DbUpdate(t)
    \/ \E t \in Tasks : ResumeSnapshot(t)
    \/ \E t \in Tasks : ResumeDriverRoute(t)
    \/ \E t \in Tasks : ResumeBroadcast(t)

SpecFrames == Init /\ [][NextFrames]_vars

\* one passenger page and one driver page of this repository's client: the
\* passenger's socket sends its auth, the driver's socket its auth and then
\* one updateLocation per position fix, over sockets that stay open
PassengerFrame ==
    /\ Len(tasks) < MaxOrderEvents
    /\ OnFrame(1, Frame("auth", Str("u2"), Str("passenger"), NoLocation, TRUE))

DriverFrame(m) ==
    /\ Len(tasks) < MaxOrderEvents
    /\ OnFrame(2, m)

DriverFrames ==
    {Frame("auth", Str("d1"), Str("driver"), NoLocation, TRUE)}
    \cup {Frame("updateLocation", Undef, Undef, l, TRUE) : l \in {L1, L2}}

NextOrder ==
    \/ \E c \in Conns : Connect(c)
    \/ PassengerFrame
    \/ \E m \in DriverFrames : DriverFrame(m)
    \/ \E t \in Tasks : DbFindMany(t)
    \/ \E t \in Tasks : DbFindFirst(t)
    \/ \E t \in Tasks : LookupDriverBus(t)
    \/ \E t \in Tasks : DbUpdate(t)
    \/ \E t \in Tasks : ResumeSnapshot(t)
    \/ \E t \in Tasks : ResumeDriverRoute(t)
    \/ \E t \in Tasks : ResumeBroadcast(t)

SpecOrder == Init /\ [][NextOrder]_vars

\* ------------------------------------------- the passenger map's state
\* useBusLocationUpdates: the state starts as [], a busLocations frame
\* replaces it, and a busLocationUpdate frame maps the rows held, replacing
\* the currentLocation of the row whose id is the frame's busId
RECURSIVE setBusLocations(_, _)
setBusLocations(msgs, n) ==
    IF n = 0 THEN {}
    ELSE LET prev == setBusLocations(msgs, n - 1)
             m    == msgs[n]
         IN  IF ~m.open THEN prev
             ELSE IF m.type = "busLocations" THEN m.data
             ELSE IF m.type = "busLocationUpdate"
                  THEN {IF bus.id = m.data.busId
                        THEN [bus EXCEPT !.currentLocation = m.data.location]
                        ELSE bus : bus \in prev}
             ELSE prev

\* the rows the page of socket c holds after the frames delivered to it
busLocations(c) == setBusLocations(sent[c], Len(sent[c]))

\* ------------------------------------------------ the admin dashboard
\* the admin dashboard of user u2 on socket AdminConn; time in seconds
AdminConn == 1

\* socket.onopen of the page's socket: the auth frame, once
AdminOpen ==
    /\ \A t \in DOMAIN tasks : tasks[t].conn # AdminConn
    /\ OnMessage(AdminConn,
                 Frame("auth", Str("u2"), Str("admin"), NoLocation, TRUE))

\* the "newIncident" handler of useIncidentUpdates on the next frame of the
\* socket: setNewIncident(data.data), then setTimeout(..., 5000)
OnNewIncident ==
    /\ adminPage.seen < Len(sent[AdminConn])
    /\ LET m == sent[AdminConn][adminPage.seen + 1]
       IN  adminPage' =
             IF m.type = "newIncident" /\ m.open
             THEN [newIncident |-> [id |-> m.ev, at |-> adminPage.now],
                   timers |-> Append(adminPage.timers,
                                     adminPage.now + ClearAfter),
                   now |-> adminPage.now,
                   seen |-> adminPage.seen + 1]
             ELSE [adminPage EXCEPT !.seen = @ + 1]
    /\ UNCHANGED <<sock, connectedClients, buses, incidents, tasks, sent>>

\* the callback of the oldest pending timer, when due: setNewIncident(null)
TimerFires ==
    /\ adminPage.timers # <<>>
    /\ Head(adminPage.timers) <= adminPage.now
    /\ adminPage' = [adminPage EXCEPT !.newIncident = NoIncident,
                                      !.timers = Tail(@)]
    /\ UNCHANGED <<sock, connectedClients, buses, incidents, tasks, sent>>

\* a second passes; a timer that is due fires first
Tick ==
    /\ adminPage.now < MaxTime
    /\ adminPage.timers # <<>> => Head(adminPage.timers) > adminPage.now
    /\ adminPage' = [adminPage EXCEPT !.now = @ + 1]
    /\ UNCHANGED <<sock, connectedClients, buses, incidents, tasks, sent>>

NextAdminPage ==
    \/ \E c \in Conns : Connect(c)
    \/ AdminOpen
    \/ PostIncident(TRUE, TRUE)
    \/ \E t \in Tasks : DbInsertIncident(t)
    \/ \E t \in Tasks : DbFindIncident(t)
    \/ \E t \in Tasks : ResumeNotifyAdmins(t)
    \/ OnNewIncident
    \/ TimerFires
    \/ Tick

SpecAdminPage == Init /\ [][NextAdminPage]_vars

\* ------------------------------------- the hub over the document store
\* busSchema declares currentLocation as { lat: Number, lng: Number }: a
\* field that is absent or a number is accepted
Castable(l) ==
    /\ l.lat.typ \in {"number", "undefined"}
    /\ l.lng.typ \in {"number", "undefined"}

\* driverBus.currentLocation = data.location; await driverBus.save()
DbSave(t) ==
    /\ tasks[t].pc = "w_update"
    /\ Castable(tasks[t].msg.location)
    /\ buses' = [buses EXCEPT ![tasks[t].bus].currentLocation =
                                  tasks[t].msg.location]
    /\ SetTask(t, "r_update", tasks[t].bus, tasks[t].snap)
    /\ UNCHANGED <<sock, connectedClients, incidents, sent, adminPage>>

\* save() rejects a location the schema cannot cast; the handler's catch
\* logs it and the handler ends
DbSaveInvalid(t) ==
    /\ tasks[t].pc = "w_update"
    /\ ~Castable(tasks[t].msg.location)
    /\ EndTask(t, TRUE, "")
    /\ UNCHANGED <<sock, connectedClients, buses, incidents, sent, adminPage>>

\* the steps of the document-store hub, fed the frames of NextFrames
NextDocument ==
    \/ \E c \in Conns : Connect(c)
    \/ \E c \in Conns, m \in Frames : OnMessage(c, m)
    \/ \E t \in Tasks : DbFindMany(t)
    \/ \E t \in Tasks : DbFindFirst(t)
    \/ \E t \in Tasks : LookupDriverBus(t)
    \/ \E t \in Tasks : DbSave(t)
    \/ \E t \in Tasks : DbSaveInvalid(t)
    \/ \E t \in Tasks : ResumeSnapshot(t)
    \/ \E t \in Tasks : ResumeDriverRoute(t)
    \/ \E t \in Tasks : ResumeBroadcast(t)

\* the driver page of driver d1: DriverDashboard calls useWebSocket,
\* useDriverRouteUpdates and useLocationUpdater, and each of the latter two
\* calls useWebSocket again; every call creates a socket of its own.  The
\* sockets of useDriverRouteUpdates and of useLocationUpdater:
HookOf(c) == IF c = 1 THEN "useDriverRouteUpdates" ELSE "useLocationUpdater"

\* socket.onopen of a hook's socket: the auth frame, once per socket
HookOpen(c) ==
    /\ \A t \in DOMAIN tasks : tasks[t].conn # c
    /\ OnMessage(c, Frame("auth", Str("d1"), Str("driver"), NoLocation, TRUE))

\* a position fix of useLocationUpdater, once its socket is connected
PositionFix(c, l) ==
    /\ HookOf(c) = "useLocationUpdater"
    /\ \E t \in DOMAIN tasks : tasks[t].conn = c
    /\ OnMessage(c, Frame("updateLocation", Undef, Undef, l, TRUE))

NextDriverPage ==
    \/ \E c \in Conns : Connect(c)
    \/ \E c \in Conns : HookOpen(c)
    \/ \E c \in Conns, l \in {L1, L2} : PositionFix(c, l)
    \/ \E t \in Tasks : DbFindFirst(t)
    \/ \E t \in Tasks : LookupDriverBus(t)
    \/ \E t \in Tasks : DbUpdate(t)
    \/ \E t \in Tasks : ResumeDriverRoute(t)
    \/ \E t \in Tasks : ResumeBroadcast(t)

SpecDriverPage == Init /\ [][NextDriverPage]_vars

\* the message handlers over a storage whose every call is answered or
\* rejected in the end, and whose every answered handler is resumed
HandlerStep(t) ==
    /\ t \in DOMAIN tasks
    /\ \/ DbFindMany(t) \/ DbFindFirst(t) \/ LookupDriverBus(t)
       \/ DbUpdate(t) \/ DbReject(t)
       \/ ResumeSnapshot(t) \/ ResumeDriverRoute(t) \/ ResumeBroadcast(t)

NextLive ==
    \/ \E c \in Conns : Connect(c)
    \/ \E c \in Conns, m \in ProtocolFrames : OnMessage(c, m)
    \/ \E t \in Tasks : DbFindMany(t)
    \/ \E t \in Tasks : DbFindFirst(t)
    \/ \E t \in Tasks : LookupDriverBus(t)
    \/ \E t \in Tasks : DbUpdate(t)
    \/ \E t \in Tasks : DbReject(t)
    \/ \E t \in Tasks : ResumeSnapshot(t)
    \/ \E t \in Tasks : ResumeDriverRoute(t)
    \/ \E t \in Tasks : ResumeBroadcast(t)

SpecLive ==
    /\ Init /\ [][NextLive]_vars
    /\ \A t \in 1..MaxEvents : WF_vars(HandlerStep(t))

\* ------------------------------------------------------------ properties
\* the ws.send calls this step makes on socket c
New(c) == SubSeq(sent'[c], Len(sent[c]) + 1, Len(sent'[c]))

\* socket c is in the Map with this role
Registered(c, role) ==
    \E i \in DOMAIN connectedClients :
        connectedClients[i].id = c /\ connectedClients[i].role = Str(role)

\* handler t ends in this step, resuming from `from`
Ends(t, kind, from) ==
    /\ t \in DOMAIN tasks
    /\ tasks[t].kind = kind
    /\ tasks[t].pc = from
    /\ tasks'[t].pc = "done"

\* the sends of handler t on socket c with this type
MsgsOf(t, c, type) ==
    {i \in DOMAIN sent[c] : sent[c][i].ev = t /\ sent[c][i].type = type}

C2_IncidentFanOut ==
    [][/\ \A t \in DOMAIN tasks :
            Ends(t, "incident", "r_incident") =>
                \A c \in Conns :
                     New(c) = IF Registered(c, "admin") /\ sock[c] = "open"
                              THEN <<[type |-> "newIncident",
                                      data |-> {[id |-> t, reportedBy |->
                                                    tasks[t].msg.userId]},
                                      ev |-> t, open |-> TRUE]>>
                              ELSE <<>>
       /\ \A c \in Conns : \A i \in DOMAIN New(c) :
            New(c)[i].type = "newIncident" =>
                Ends(New(c)[i].ev, "incident", "r_incident")
       /\ \A t \in DOMAIN tasks :
            (tasks[t].res # "201" /\ tasks'[t].res = "201") =>
                Ends(t, "incident", "r_incident")
      ]_vars

\* C2 witness: an incident was fanned out to an admin socket while another
\* socket, registered with another role, got nothing
C2_Witness ==
    \E t \in DOMAIN tasks, c, d \in Conns :
        /\ tasks[t].kind = "incident" /\ tasks[t].pc = "done"
        /\ MsgsOf(t, c, "newIncident") # {}
        /\ Registered(c, "admin")
        /\ (Registered(d, "passenger") \/ Registered(d, "driver"))
        /\ MsgsOf(t, d, "newIncident") = {}

\* the step handles one inbound event: its handler is the last of tasks'
Receives == Len(tasks') = Len(tasks) + 1

Received == tasks'[Len(tasks')]

\* a handler that has ended does nothing more: its record is final and no
\* later step sends on its behalf
DoneIsFinal ==
    /\ \A t \in DOMAIN tasks : tasks[t].pc = "done" => tasks'[t] = tasks[t]
    /\ \A c \in Conns : \A i \in DOMAIN New(c) :
         /\ New(c)[i].ev \in DOMAIN tasks
         /\ tasks[New(c)[i].ev].pc # "done"

IsAuthOf(t, role) ==
    /\ tasks[t].msg.type = "auth"
    /\ tasks[t].msg.wellFormed
    /\ tasks[t].msg.role = Str(role)
    /\ Truthy(tasks[t].msg.userId)

\* the rows with status active, read from the stored rows as they are now
ActiveNow ==
    {[id |-> b, driverId |-> buses[b].driverId, status |-> "active",
      currentLocation |-> buses[b].currentLocation] :
        b \in {x \in Buses : buses[x].status = "active"}}

\* C3 as stated: every auth event with role passenger, once handled, has made
\* the sending connection (and no other) receive exactly one busLocations
\* message, holding only buses that were active.
C3_AsStated ==
    \A t \in DOMAIN tasks :
        (IsAuthOf(t, "passenger") /\ tasks[t].pc = "done") =>
            /\ Cardinality({i \in MsgsOf(t, tasks[t].conn, "busLocations") :
                               sent[tasks[t].conn][i].open}) = 1
            /\ \A c \in Conns \ {tasks[t].conn} :
                   MsgsOf(t, c, "busLocations") = {}

C3_SnapshotState ==
    \A t \in DOMAIN tasks : IsAuthOf(t, "passenger") =>
        /\ \A c \in Conns \ {tasks[t].conn} : MsgsOf(t, c, "busLocations") = {}
        /\ Cardinality(MsgsOf(t, tasks[t].conn, "busLocations")) =
              IF tasks[t].pc = "done" /\ ~tasks[t].failed THEN 1 ELSE 0
        /\ \A i \in MsgsOf(t, tasks[t].conn, "busLocations") :
              /\ sent[tasks[t].conn][i].data = tasks[t].snap
              /\ \A r \in sent[tasks[t].conn][i].data : r.status = "active"

\* C3 (amended): an auth event with role passenger whose storage lookup
\* resolves causes exactly one busLocations send, on the sending connection's
\* socket and on no other (the frame arrives only if that socket is still
\* open then); an event whose lookup rejects causes none; the message holds
\* exactly the buses whose status was active when the lookup was answered.
C3_Snapshot ==
    [][/\ C3_SnapshotState'
       /\ \A t \in DOMAIN tasks :
            (tasks[t].pc = "w_findMany" /\ tasks'[t].pc = "r_findMany") =>
                tasks'[t].snap = ActiveNow
       /\ \A t \in DOMAIN tasks :
            Ends(t, "auth", "r_findMany") =>
                New(tasks[t].conn) =
                    <<[type |-> "busLocations", data |-> tasks[t].snap,
                       ev |-> t, open |-> (sock[tasks[t].conn] = "open")]>>
      ]_vars

\* C3 witness: a passenger received its snapshot, and a bus of that snapshot
\* is no longer active: it was active when the lookup was answered
C3_Witness ==
    \E t \in DOMAIN tasks :
        /\ IsAuthOf(t, "passenger") /\ tasks[t].pc = "done"
        /\ \E i \in MsgsOf(t, tasks[t].conn, "busLocations") :
              /\ sent[tasks[t].conn][i].open
              /\ \E r \in sent[tasks[t].conn][i].data :
                    buses[r.id].status = "inactive"

C4_DriverRouteState ==
    \A t \in DOMAIN tasks : IsAuthOf(t, "driver") =>
        /\ \A c \in Conns \ {tasks[t].conn} : MsgsOf(t, c, "busRoute") = {}
        /\ \A i \in MsgsOf(t, tasks[t].conn, "busRoute") :
              /\ tasks[t].bus # NoBus
              /\ \E r \in sent[tasks[t].conn][i].data :
                    /\ sent[tasks[t].conn][i].data = {r}
                    /\ r.id = tasks[t].bus
                    /\ r.driverId = tasks[t].msg.userId
        /\ Cardinality(MsgsOf(t, tasks[t].conn, "busRoute")) =
              IF tasks[t].pc = "done" /\ tasks[t].bus # NoBus THEN 1 ELSE 0
        /\ (tasks[t].pc = "done" /\ tasks[t].bus = NoBus) =>
              \A c \in Conns : \A i \in DOMAIN sent[c] : sent[c][i].ev # t

\* C4: an auth event with role driver and userId U causes a busRoute send
\* only when the lookup found a bus whose driverId is U: then exactly one, on
\* the sending connection's socket only, carrying that bus.  When the lookup
\* is answered with no bus, the handler ends without any send, without an
\* error and with the registry as it was.
C4_DriverRoute ==
    [][/\ C4_DriverRouteState'
       /\ \A t \in DOMAIN tasks :
            (tasks[t].pc = "w_driverBus" /\ tasks'[t].pc = "r_driverBus") =>
                /\ tasks'[t].bus = NoBus <=>
                      ~ \E b \in Buses : buses[b].driverId = tasks[t].msg.userId
                /\ tasks'[t].bus # NoBus =>
                      buses[tasks'[t].bus].driverId = tasks[t].msg.userId
       /\ \A t \in DOMAIN tasks :
            (Ends(t, "auth", "r_driverBus") /\ tasks[t].bus = NoBus) =>
                /\ sent' = sent
                /\ connectedClients' = connectedClients
                /\ ~tasks'[t].failed
      ]_vars

\* C4 witness: a driver with no assigned bus was answered and got nothing,
\* and is still registered as driver
C4_Witness ==
    \E t \in DOMAIN tasks :
        /\ IsAuthOf(t, "driver") /\ tasks[t].pc = "done"
        /\ ~tasks[t].failed /\ tasks[t].bus = NoBus
        /\ Registered(tasks[t].conn, "driver")
        /\ sent[tasks[t].conn] = <<>>

\* how often a fan-out over the role visits socket c
Visits(reg, role, c) ==
    Cardinality({i \in DOMAIN ForEachOfRole(reg, role) :
                    ForEachOfRole(reg, role)[i].id = c})

\* C5: after an accepted socket has sent a valid auth with role R, the
\* registry holds exactly one entry for it; a fan-out over R visits that
\* entry exactly once and a fan-out over any other role does not visit it.
\* No socket ever has two entries.
C5_OneEntry ==
    [][/\ \A c \in Conns :
            Cardinality({i \in DOMAIN connectedClients' :
                            connectedClients'[i].id = c}) <= 1
       /\ (Receives /\ Received.msg.type = "auth" /\ Received.msg.wellFormed
             /\ Received.msg.role \in {Str(r) : r \in Roles}
             /\ Truthy(Received.msg.userId)) =>
            /\ Cardinality({i \in DOMAIN connectedClients' :
                               connectedClients'[i].id = Received.conn}) = 1
            /\ \A r \in Roles :
                 Visits(connectedClients', r, Received.conn) =
                    IF Str(r) = Received.msg.role THEN 1 ELSE 0
      ]_vars

\* C5 witness: a socket that has sent two valid auth events is registered
C5_Witness ==
    \E t, u \in DOMAIN tasks :
        /\ t < u
        /\ tasks[t].conn = tasks[u].conn
        /\ tasks[t].msg.type = "auth" /\ tasks[u].msg.type = "auth"
        /\ tasks[t].msg.role # tasks[u].msg.role
        /\ tasks[u].conn \in Ids(connectedClients)

\* C6 as stated: once a role and userId are stored for a connection, no later
\* step changes them while the connection stays in the registry.
C6_AsStated ==
    [][\A c \in Conns :
          (c \in Ids(connectedClients) /\ c \in Ids(connectedClients')) =>
              MapGet(connectedClients', c) = MapGet(connectedClients, c)
      ]_vars

\* C7: an updateLocation frame from a socket that is not registered with
\* role driver when the frame is received changes no bus row, makes no send
\* on any socket, leaves the registry as it was and leaves nothing pending.
C7_UpdateNeedsDriver ==
    [][/\ DoneIsFinal
       /\ (Receives /\ Received.msg.type = "updateLocation"
             /\ ~Registered(Received.conn, "driver")) =>
            /\ buses' = buses
            /\ sent' = sent
            /\ connectedClients' = connectedClients
            /\ Received.pc = "done"
      ]_vars

\* C7 witness: a well-formed updateLocation was received from a socket that
\* had registered as passenger
C7_Witness ==
    \E t, u \in DOMAIN tasks :
        /\ t < u
        /\ tasks[t].conn = tasks[u].conn
        /\ IsAuthOf(t, "passenger")
        /\ tasks[u].msg.type = "updateLocation"
        /\ isValidLocation(tasks[u].msg.location)
        /\ Registered(tasks[u].conn, "passenger")
        /\ tasks[u].pc = "done"

\* C8: an updateLocation from a registered driver whose userId has no bus
\* when the lookup is answered makes no send on any socket, writes no bus row
\* and leaves the registry as it was, in every step of its handler.
C8_NoBusNoEffect ==
    [][/\ DoneIsFinal
       /\ (Receives /\ Received.msg.type = "updateLocation") =>
            /\ buses' = buses /\ sent' = sent
            /\ connectedClients' = connectedClients
       /\ \A t \in DOMAIN tasks :
            (/\ tasks[t].kind = "update"
             /\ tasks[t].pc = "w_findFirst"
             /\ tasks'[t].pc # "w_findFirst"
             /\ ~ \E b \in Buses : buses[b].driverId = tasks[t].user) =>
                /\ tasks'[t].pc = "done"
                /\ buses' = buses /\ sent' = sent
                /\ connectedClients' = connectedClients
      ]_vars

\* C8 witness: the handler of an updateLocation from a driver who has no
\* bus has ended without error while a passenger is registered and open
C8_Witness ==
    \E t \in DOMAIN tasks :
        /\ tasks[t].kind = "update" /\ tasks[t].pc = "done"
        /\ ~tasks[t].failed /\ tasks[t].bus = NoBus
        /\ \E c \in Conns : Registered(c, "passenger") /\ sock[c] = "open"

\* C9 as stated: a malformed location is never stored as a bus's
\* currentLocation and never broadcast.
C9_AsStated ==
    /\ \A b \in Buses :
          buses[b].currentLocation = NoLocation
             \/ isValidLocation(buses[b].currentLocation)
    /\ \A c \in Conns : \A i \in DOMAIN sent[c] :
          sent[c][i].type = "busLocationUpdate" =>
              isValidLocation(sent[c][i].data.location)

\* an auth frame as the spec wants it: userId a string or a number, role one
\* of the three
WellFormedAuth(m) ==
    /\ m.wellFormed /\ m.type = "auth"
    /\ m.userId.typ \in {"string", "number"}
    /\ m.role \in {Str(r) : r \in Roles}

\* C10 as stated: an auth frame that is not well-formed changes no registry
\* entry and starts no snapshot; every well-formed auth frame is accepted.
C10_AsStated ==
    [][(Receives /\ Received.msg.type = "auth") =>
          IF WellFormedAuth(Received.msg)
          THEN /\ MapGet(connectedClients', Received.conn).role =
                     Received.msg.role
               /\ MapGet(connectedClients', Received.conn).userId =
                     Received.msg.userId
          ELSE /\ connectedClients' = connectedClients
               /\ Received.pc = "done"
      ]_vars

C14_NoFanOutAfterClose ==
    [][\A c \in Conns : sock[c] = "closed" =>
          /\ \A i \in DOMAIN New(c) :
                New(c)[i].type \notin {"busLocationUpdate", "newIncident"}
          /\ \A t \in DOMAIN tasks :
                /\ Ends(t, "update", "r_update") =>
                      Visits(connectedClients, "passenger", c) = 0
                /\ Ends(t, "incident", "r_incident") =>
                      Visits(connectedClients, "admin", c) = 0
      ]_vars

\* C14 witness: a socket that had registered as passenger before a driver's
\* update was received is closed, the update was fanned out, and the socket
\* got no busLocationUpdate
C14_Witness ==
    \E t, u \in DOMAIN tasks :
        /\ t < u
        /\ IsAuthOf(t, "passenger")
        /\ sock[tasks[t].conn] = "closed"
        /\ tasks[u].kind = "update" /\ tasks[u].pc = "done"
        /\ ~tasks[u].failed /\ tasks[u].bus # NoBus
        /\ MsgsOf(u, tasks[t].conn, "busLocationUpdate") = {}

\* C15: the registry holds no entry for a socket whose close event has been
\* handled, also while that socket's own auth handler is suspended on its
\* storage call and after that handler has resumed.
C15_NoClosedEntry ==
    \A c \in Conns : sock[c] = "closed" => c \notin Ids(connectedClients)

\* C15 witness: the auth handler of a closed socket resumed after the socket
\* had left the open state, and the socket has no entry
C15_Witness ==
    \E t \in DOMAIN tasks :
        /\ IsAuthOf(t, "passenger") /\ tasks[t].pc = "done"
        /\ sock[tasks[t].conn] = "closed"
        /\ \E i \in MsgsOf(t, tasks[t].conn, "busLocations") :
              ~sent[tasks[t].conn][i].open
        /\ tasks[t].conn \notin Ids(connectedClients)

\* C16: removing a socket's id from the registry twice gives the registry
\* that removing it once gives, removing an id that has no entry leaves the
\* registry as it is, and the close handler's removal is that removal.
C16_RemoveIdempotent ==
    [][/\ \A c \in Conns :
            /\ MapDelete(MapDelete(connectedClients', c), c) =
                  MapDelete(connectedClients', c)
            /\ c \notin Ids(MapDelete(connectedClients', c))
            /\ c \notin Ids(connectedClients') =>
                  MapDelete(connectedClients', c) = connectedClients'
       /\ \A c \in Conns :
            (sock[c] = "closing" /\ sock'[c] = "closed") =>
                /\ Ids(connectedClients') = Ids(connectedClients) \ {c}
                /\ \A d \in Ids(connectedClients') :
                      MapGet(connectedClients', d) = MapGet(connectedClients, d)
                /\ c \notin Ids(connectedClients) =>
                      connectedClients' = connectedClients
      ]_vars

\* C16 witness: the close of a socket that never registered was handled
\* while another socket was registered
C16_Witness ==
    \E c \in Conns :
        /\ sock[c] = "closed"
        /\ \A t \in DOMAIN tasks : tasks[t].conn # c
        /\ connectedClients # <<>>

\* C17: a socket leaving the open state, or its close being handled, changes
\* no handler; an updateLocation handler whose driver's socket is no longer
\* open goes on as it would have: a found bus leads to the write, the write
\* stores the frame's location on that bus, and the fan-out sends the
\* busLocationUpdate on every open passenger socket.
C17_CloseCancelsNothing ==
    [][/\ \A c \in Conns : sock'[c] # sock[c] => tasks' = tasks
       /\ \A t \in DOMAIN tasks :
            (/\ tasks[t].kind = "update"
             /\ sock[tasks[t].conn] # "open"
             /\ tasks'[t].pc # tasks[t].pc
             /\ ~tasks'[t].failed) =>
                /\ (tasks[t].pc = "w_findFirst"
                      /\ \E b \in Buses : buses[b].driverId = tasks[t].user) =>
                        /\ tasks'[t].pc = "w_update"
                        /\ buses[tasks'[t].bus].driverId = tasks[t].user
                /\ tasks[t].pc = "w_update" =>
                        /\ tasks'[t].pc = "r_update"
                        /\ buses'[tasks[t].bus].currentLocation =
                              tasks[t].msg.location
                /\ tasks[t].pc = "r_update" =>
                        \A c \in Conns :
                            New(c) =
                              IF Registered(c, "passenger") /\ sock[c] = "open"
                              THEN <<[type |-> "busLocationUpdate",
                                      data |-> [busId |-> tasks[t].bus,
                                                location |->
                                                   tasks[t].msg.location],
                                      ev |-> t, open |-> TRUE]>>
                              ELSE <<>>
      ]_vars

\* C17 witness: the driver's socket is closed and deregistered, its update
\* is stored on its bus and a passenger has received the busLocationUpdate
C17_Witness ==
    \E t \in DOMAIN tasks, c \in Conns :
        /\ tasks[t].kind = "update" /\ tasks[t].pc = "done"
        /\ ~tasks[t].failed /\ tasks[t].bus # NoBus
        /\ sock[tasks[t].conn] = "closed"
        /\ tasks[t].conn \notin Ids(connectedClients)
        /\ buses[tasks[t].bus].currentLocation = tasks[t].msg.location
        /\ \E i \in MsgsOf(t, c, "busLocationUpdate") : sent[c][i].open

\* C18 as stated: no ws.send is ever made on a socket that is not open; a
\* resumed auth handler skips its snapshot write when its socket has closed.
C18_AsStated ==
    \A c \in Conns : \A i \in DOMAIN sent[c] : sent[c][i].open

\* C19: handlers start in the order their frames are received (the list of
\* started handlers only grows at its end, and a received frame's handler
\* has run to its first await in the step that receives it), but the stored
\* location is that of the write answered last, whatever the order of
\* receipt: every answered write stores its own frame's location and every
\* fan-out carries its own frame's location.
C19_StartOrderOnly ==
    [][/\ Len(tasks') \in {Len(tasks), Len(tasks) + 1}
       /\ \A t \in DOMAIN tasks :
            /\ tasks'[t].msg = tasks[t].msg
            /\ tasks'[t].conn = tasks[t].conn
       /\ (Receives /\ UpdateGuard(Received.msg)
             /\ Registered(Received.conn, "driver")) =>
            Received.pc = "w_findFirst"
       /\ \A t \in DOMAIN tasks :
            (tasks[t].pc = "w_update" /\ tasks'[t].pc = "r_update") =>
                buses'[tasks[t].bus].currentLocation = tasks[t].msg.location
       /\ \A t \in DOMAIN tasks : \A c \in Conns :
            Ends(t, "update", "r_update") =>
                \A i \in DOMAIN New(c) :
                    New(c)[i].data.location = tasks[t].msg.location
      ]_vars

\* C19 witness: of two updates of one driver, the one received later was
\* broadcast first, and the bus holds the location of the one received first
C19_Witness ==
    \E t, u \in DOMAIN tasks, c \in Conns :
        /\ t < u
        /\ tasks[t].conn = tasks[u].conn
        /\ tasks[t].kind = "update" /\ tasks[u].kind = "update"
        /\ tasks[t].pc = "done" /\ tasks[u].pc = "done"
        /\ tasks[t].bus = tasks[u].bus /\ tasks[t].bus # NoBus
        /\ tasks[t].msg.location # tasks[u].msg.location
        /\ buses[tasks[t].bus].currentLocation = tasks[t].msg.location
        /\ \E i \in MsgsOf(u, c, "busLocationUpdate") :
             \E j \in MsgsOf(t, c, "busLocationUpdate") : i < j

\* C20: every started message handler ends; the step in which a storage call
\* of a handler rejects ends that handler and changes no socket, no registry
\* entry, no bus row and no socket's output; an ended handler does nothing
\* more, and a bus row changes only in the answered write of a handler.
C20_HandlersComplete ==
    /\ [][/\ DoneIsFinal
          /\ \A t \in DOMAIN tasks :
               (~tasks[t].failed /\ tasks'[t].failed) =>
                   /\ tasks'[t].pc = "done"
                   /\ sock' = sock
                   /\ connectedClients' = connectedClients
                   /\ buses' = buses
                   /\ sent' = sent
          /\ buses' # buses =>
               \E t \in DOMAIN tasks :
                   tasks[t].pc = "w_update" /\ tasks'[t].pc = "r_update"
         ]_vars
    /\ \A t \in 1..MaxEvents :
          (t \in DOMAIN tasks) ~> (t \in DOMAIN tasks /\ tasks[t].pc = "done")

\* C20 witness: the write of a driver's update was rejected; its handler has
\* ended, no bus row holds a location, nothing was sent, and the driver's
\* socket is open and registered
C20_Witness ==
    \E t \in DOMAIN tasks :
        /\ tasks[t].kind = "update" /\ tasks[t].pc = "done"
        /\ tasks[t].failed /\ tasks[t].bus # NoBus
        /\ \A b \in Buses : buses[b].currentLocation = NoLocation
        /\ \A c \in Conns : \A i \in DOMAIN sent[c] : sent[c][i].ev # t
        /\ sock[tasks[t].conn] = "open"
        /\ Registered(tasks[t].conn, "driver")

\* C11 as stated: in a fan-out in which a write on one recipient fails, every
\* other open socket of the target role still gets the message.
C11_AsStated ==
    [][\A t \in DOMAIN tasks : \A c \in Conns :
          /\ (Ends(t, "update", "r_update")
                /\ Registered(c, "passenger") /\ sock[c] = "open") =>
                \E i \in DOMAIN New(c) : New(c)[i].type = "busLocationUpdate"
          /\ (Ends(t, "incident", "r_incident")
                /\ Registered(c, "admin") /\ sock[c] = "open") =>
                \E i \in DOMAIN New(c) : New(c)[i].type = "newIncident"
      ]_vars

\* C12 as stated: once the incident row of a POST /api/incidents is stored,
\* the request is answered 201, whether or not a write to an admin fails.
C12_AsStated ==
    \A t \in DOMAIN tasks :
        (tasks[t].kind = "incident" /\ tasks[t].pc = "done"
           /\ \E i \in incidents : i.id = t) =>
            tasks[t].res = "201"

\* C21: a handler reaches its fan-out only from its answered write, which
\* has stored the frame's location on the handler's bus; every
\* busLocationUpdate is sent by a handler in its fan-out and carries that bus
\* and that location; a handler whose storage call failed sends none.
C21_PersistBeforeBroadcast ==
    [][/\ \A t \in DOMAIN tasks :
            (tasks'[t].pc = "r_update" /\ tasks[t].pc # "r_update") =>
                /\ tasks[t].pc = "w_update"
                /\ buses'[tasks[t].bus].currentLocation = tasks[t].msg.location
       /\ \A c \in Conns : \A i \in DOMAIN New(c) :
            New(c)[i].type = "busLocationUpdate" =>
                /\ New(c)[i].ev \in DOMAIN tasks
                /\ tasks[New(c)[i].ev].pc = "r_update"
                /\ New(c)[i].data =
                      [busId |-> tasks[New(c)[i].ev].bus,
                       location |-> tasks[New(c)[i].ev].msg.location]
       /\ \A t \in DOMAIN tasks' : \A c \in Conns :
            (tasks'[t].kind = "update" /\ tasks'[t].failed) =>
                \A i \in DOMAIN sent'[c] : sent'[c][i].ev # t
      ]_vars

\* C21 witness: a passenger has received a busLocationUpdate whose location
\* is the one stored on its bus
C21_Witness ==
    \E t \in DOMAIN tasks, c \in Conns :
        /\ tasks[t].kind = "update" /\ tasks[t].pc = "done"
        /\ ~tasks[t].failed
        /\ \E i \in MsgsOf(t, c, "busLocationUpdate") :
              /\ sent[c][i].open
              /\ buses[sent[c][i].data.busId].currentLocation =
                    sent[c][i].data.location

\* C22: handling a WebSocket event changes no bus's driverId, routeId or
\* status; currentLocation changes only in the answered write of an
\* updateLocation handler, and only on the bus whose driverId is the userId
\* the sender was registered with.
C22_OnlyCurrentLocation ==
    [][\A b \in Buses :
          /\ buses'[b].driverId = buses[b].driverId
          /\ buses'[b].routeId = buses[b].routeId
          /\ buses'[b].status = buses[b].status
          /\ buses'[b].currentLocation # buses[b].currentLocation =>
                \E t \in DOMAIN tasks :
                    /\ tasks[t].kind = "update"
                    /\ tasks[t].pc = "w_update" /\ tasks'[t].pc = "r_update"
                    /\ buses[b].driverId = tasks[t].user
                    /\ buses'[b].currentLocation = tasks[t].msg.location
      ]_vars

\* C22 witness: the driver's bus holds the location of an update, the other
\* bus holds none
C22_Witness ==
    \E t \in DOMAIN tasks :
        /\ tasks[t].kind = "update" /\ tasks[t].pc = "done"
        /\ tasks[t].bus # NoBus
        /\ buses[tasks[t].bus].currentLocation = tasks[t].msg.location
        /\ \E b \in Buses \ {tasks[t].bus} :
              buses[b].currentLocation = NoLocation

\* C23: every newIncident carries the stored row of the request that sends
\* it; a POST /api/incidents that is not authenticated, that fails
\* validation or whose insert is rejected stores no row and sends nothing.
C23_NotifyAfterCreate ==
    [][/\ \A c \in Conns : \A i \in DOMAIN New(c) :
            New(c)[i].type = "newIncident" =>
                /\ New(c)[i].ev \in DOMAIN tasks
                /\ \E r \in incidents :
                      r.id = New(c)[i].ev /\ New(c)[i].data = {r}
       /\ \A t \in DOMAIN tasks' :
            (/\ tasks'[t].kind = "incident"
             /\ \/ tasks'[t].msg.userId = Undef
                \/ ~tasks'[t].msg.wellFormed
                \/ \A r \in incidents' : r.id # t) =>
                /\ \A r \in incidents' : r.id # t
                /\ \A c \in Conns : \A i \in DOMAIN sent'[c] :
                      sent'[c][i].ev # t
      ]_vars

\* C23 witness: with an admin registered and open, a request was refused (401
\* or 500) and the admin has received nothing
C23_Witness ==
    \E t, u \in DOMAIN tasks :
        /\ t < u
        /\ IsAuthOf(t, "admin")
        /\ sock[tasks[t].conn] = "open"
        /\ Registered(tasks[t].conn, "admin")
        /\ tasks[u].kind = "incident" /\ tasks[u].pc = "done"
        /\ tasks[u].res \in {"401", "500"}
        /\ sent[tasks[t].conn] = <<>>

\* C29 as stated: whenever a busLocations is written on a socket, the
\* socket's registry entry has role passenger; whenever a busRoute is
\* written, the entry has role driver and the userId of the lookup.
C29_AsStated ==
    [][\A c \in Conns : \A i \in DOMAIN New(c) :
          /\ New(c)[i].type = "busLocations" => Registered(c, "passenger")
          /\ New(c)[i].type = "busRoute" =>
                /\ Registered(c, "driver")
                /\ MapGet(connectedClients, c).userId =
                      tasks[New(c)[i].ev].user
      ]_vars

\* the socket of passenger auth t is open and has sent no later auth with
\* another role
StillPassenger(t) ==
    /\ IsAuthOf(t, "passenger")
    /\ sock[tasks[t].conn] = "open"
    /\ \A u \in DOMAIN tasks :
          (u > t /\ tasks[u].conn = tasks[t].conn /\ AuthGuard(tasks[u].msg)) =>
              tasks[u].msg.role = Str("passenger")

C24_AsStated ==
    [][(Receives /\ Received.msg.type = "stopUpdate"
          /\ Registered(Received.conn, "driver")) =>
            \A c \in Conns :
                (Registered(c, "passenger") /\ sock[c] = "open") =>
                    New(c) # <<>>
      ]_vars

\* C25 as stated: one user on one page has at most one open socket, the
\* registry holds at most one entry for the user, and the page is sent its
\* snapshot once.
C25_AsStated ==
    /\ Cardinality({c \in Conns : sock[c] = "open"}) <= 1
    /\ Cardinality({i \in DOMAIN connectedClients :
                       connectedClients[i].userId = Str("d1")}) <= 1
    /\ Cardinality({<<c, i>> \in Conns \X (1..MaxEvents) :
                       /\ i \in DOMAIN sent[c]
                       /\ sent[c][i].type = "busRoute"}) <= 1

\* C26 as stated: fed the same events with the same storage answers, every
\* step of the relational hub is a step of the document-store hub, so the
\* two send the same messages and hold the same registry and bus state.
C26_AsStated == [][NextDocument]_vars

\* C28 as stated: once a passenger client has processed its snapshot and
\* every update delivered to it, and no handler is in flight, the
\* currentLocation it holds for each bus equals the persisted one.
C28_AsStated ==
    \A c \in Conns :
        (/\ \A t \in DOMAIN tasks : tasks[t].pc = "done"
         /\ Registered(c, "passenger")
         /\ \E i \in DOMAIN sent[c] : sent[c][i].type = "busLocations") =>
            \A bus \in busLocations(c) :
                bus.currentLocation = buses[bus.id].currentLocation

\* C30 as stated: the displayed incident is cleared only once 5 seconds
\* have passed since its own arrival.
C30_AsStated ==
    [][(adminPage.newIncident # NoIncident
          /\ adminPage'.newIncident = NoIncident) =>
             adminPage.now >= adminPage.newIncident.at + ClearAfter
      ]_vars
====
